---- MODULE Spec2Model ----
(***************************************************************************)
(* Model of the job-hunter-plus text pipeline:                             *)
(*   NLPProcessing (src/src/nlp_processing.py): fit / transform /          *)
(*     fit_transform, the stem/lemmatize step and TF-IDF vocabulary fit;   *)
(*   JHPModel (src/src/build_model.py): fit / predict / cross_validate,    *)
(*     the score report and the feature report.                            *)
(*                                                                         *)
(* Representation.  A document is the sequence of the words that           *)
(* text.split(" ") yields, so " ".join(...) of a processed word list is    *)
(* again such a sequence.  A feature matrix is the pair (cols, rows): the  *)
(* fitted vocabulary and, per document, the set of vocabulary terms with a *)
(* non-zero weight; the TF-IDF weights themselves are not represented.     *)
(* An operation that can raise returns a record with the fields `raised`   *)
(* and `error`; the caller propagates it, as Python does.                  *)
(***************************************************************************)
EXTENDS Integers, Sequences, FiniteSets, TLC

VARIABLES
    stemlem,        \* NLPProcessing.stemlem: the mode string, as its keywords
    use_stopwords,  \* NLPProcessing.use_stopwords
    classes,        \* JHPModel.classes (= NLPProcessing.num_cities)
    done_stopwords, \* NLPProcessing.done_stopwords
    vectorize,      \* NLPProcessing.vectorize
    model,          \* JHPModel.model: the wrapped classifier
    ret,            \* outcome of the last call: what it returned, raised, printed
    scoresIn,       \* argument of the last _get_scores call made on its own
    featIn          \* (feature names, importances, n) read by the feature report

vars == <<stemlem, use_stopwords, classes, done_stopwords, vectorize, model,
          ret, scoresIn, featIn>>

(***************************************************************************)
(* Bounds and program constants.                                           *)
(***************************************************************************)
MaxRecords == 2     \* longest record set handed to an operation
MaxCount == 2       \* largest entry of a 2x2 confusion matrix given to the score report
MaxFeat == 3        \* largest vocabulary size drawn for the feature report
min_df == 1         \* NLPProcessing.__init__ default
max_df_pct == 100   \* NLPProcessing.__init__ default max_df=1.0, as a percentage

Min(a, b) == IF a < b THEN a ELSE b

Range(s) == {s[i] : i \in 1..Len(s)}

RECURSIVE SumSeq(_)
SumSeq(s) == IF s = <<>> THEN 0 ELSE Head(s) + SumSeq(Tail(s))

(***************************************************************************)
(* Collaborators that live outside src/: the stop-word list and the        *)
(* record filter.                                                          *)
(***************************************************************************)
\* utils.get_stopwords(): a static set of (lower-case) stop words.
get_stopwords == {"the", "a"}

\* A table of records (a data frame) and a plain list of documents.
Frame(rows) == [kind |-> "frame", rows |-> rows]
DocList(docs) == [kind |-> "docs", docs |-> docs]

\* dataframe_processing.create_model_data(data, num_cities): keeps the records
\* of the num_cities retained classes (labels 0..num_cities-1) and extracts the
\* parallel document and label arrays; df is the filtered table.  A plain list
\* of documents (what predict hands over) carries no labels and is kept whole.
create_model_data(data, num_cities) ==
    IF data.kind = "docs"
    THEN [df |-> data, fit_array |-> data.docs, doc_array |-> data.docs, y |-> <<>>]
    ELSE LET rows == SelectSeq(data.rows, LAMBDA r : r.label < num_cities)
             docs == [i \in 1..Len(rows) |-> rows[i].doc]
         IN  [df |-> Frame(rows), fit_array |-> docs, doc_array |-> docs,
              y |-> [i \in 1..Len(rows) |-> rows[i].label]]

\* JHPModel._get_labels(df): the label column.
_get_labels(df) == [i \in 1..Len(df.rows) |-> df.rows[i].label]

(***************************************************************************)
(* The words of the modelled corpus and what the three NLTK models and the *)
(* scikit-learn tokenizer do to them.                                      *)
(***************************************************************************)
\* PorterStemmer().stem(word): lower-cases, then strips suffixes.
PorterStem(w) ==
    CASE w = "The" -> "the"
      [] w = "jobs" -> "job"
      [] w = "fairly" -> "fairli"
      [] OTHER -> w

\* SnowballStemmer("english").stem(word)
SnowballStem(w) ==
    CASE w = "The" -> "the"
      [] w = "jobs" -> "job"
      [] w = "fairly" -> "fair"
      [] OTHER -> w

\* WordNetLemmatizer().lemmatize(word): noun lemma, the word itself when unknown;
\* does not lower-case.
WordNetLemma(w) ==
    CASE w = "jobs" -> "job"
      [] OTHER -> w

\* str.lower() as the vectorizer's preprocessor applies it.
Lower(w) == IF w = "The" THEN "the" ELSE w

ApplyModel(m, w) ==
    CASE m = "wordnet" -> WordNetLemma(w)
      [] m = "snowball" -> SnowballStem(w)
      [] m = "porter" -> PorterStem(w)

\* NLPProcessing._do_stem_lem(documents, model, stemmer), reading
\* self.use_stopwords and self.done_stopwords.
_do_stem_lem(documents, m, use_sw, done_sw) ==
    LET stop_words == IF use_sw /\ ~done_sw THEN get_stopwords ELSE {}
    IN  [d \in 1..Len(documents) |->
            LET kept == SelectSeq(documents[d], LAMBDA w : w \notin stop_words)
            IN  [j \in 1..Len(kept) |-> ApplyModel(m, kept[j])]]

\* "kw in self.stemlem"
InMode(kw, mode) == kw \in Range(mode)

StemlemStagesBothStemmers(mode) ==
    (IF InMode("wordnet", mode) THEN <<"wordnet">> ELSE <<>>)
    \o (IF InMode("snowball", mode) THEN <<"snowball">> ELSE <<>>)
    \o (IF InMode("porter", mode) THEN <<"porter">> ELSE <<>>)

\* The models NLPProcessing._stemlem applies, in the order it applies them.
StemlemStages(mode) ==
    (IF InMode("wordnet", mode) THEN <<"wordnet">> ELSE <<>>)
    \o (IF InMode("snowball", mode) THEN <<"snowball">>
        ELSE IF InMode("porter", mode) THEN <<"porter">>
        ELSE <<>>)

RECURSIVE RunStages(_, _, _, _)
RunStages(stages, text_array, use_sw, done_sw) ==
    IF stages = <<>> THEN text_array
    ELSE RunStages(Tail(stages),
                   _do_stem_lem(text_array, Head(stages), use_sw, done_sw),
                   use_sw, done_sw)

\* NLPProcessing._stemlem(text_array): done_stopwords is set before the models
\* run and cleared afterwards.
_stemlem(text_array, mode, use_sw) ==
    LET done_during == TRUE
        stages == StemlemStages(mode)
    IN  [text_array |-> RunStages(stages, text_array, use_sw, done_during),
         stages |-> stages,
         input |-> text_array,
         done_stopwords |-> FALSE,
         ran |-> TRUE]

(***************************************************************************)
(* The scikit-learn vectorizer as NLPProcessing uses it (ngram_range is    *)
(* (1, 1), the default n_grams).                                           *)
(***************************************************************************)
NoVectorizer == [state |-> "None", vocabulary_ |-> {}, stop_words |-> {}]

\* The analyzer: lower-case, keep tokens of two or more word characters, drop
\* the vectorizer's stop words.
Analyze(doc, stop_words) ==
    {Lower(doc[j]) : j \in {k \in 1..Len(doc) :
                               /\ Len(Lower(doc[k])) >= 2
                               /\ Lower(doc[k]) \notin stop_words}}

\* TfidfVectorizer.fit: the vocabulary of the training documents, pruned by
\* min_df (a count) and max_df (a proportion); ValueError when nothing is left.
VectorizerFit(training_docs, stop_words) ==
    LET n_doc == Len(training_docs)
        all == UNION {Analyze(training_docs[i], stop_words) : i \in 1..n_doc}
        df(t) == Cardinality({i \in 1..n_doc : t \in Analyze(training_docs[i], stop_words)})
        kept == {t \in all : df(t) >= min_df /\ df(t) * 100 <= max_df_pct * n_doc}
        bad == all = {} \/ max_df_pct * n_doc < min_df * 100 \/ kept = {}
    IN  [raised |-> bad,
         error |-> IF bad THEN "ValueError" ELSE "",
         vectorize |-> IF bad
                       THEN [state |-> "unfitted", vocabulary_ |-> {},
                             stop_words |-> stop_words]
                       ELSE [state |-> "fitted", vocabulary_ |-> kept,
                             stop_words |-> stop_words]]

NoValue == [kind |-> "none"]

\* vectorizer.transform(doc_array): one row per document over the fitted
\* vocabulary; NotFittedError when the vectorizer holds no vocabulary.
VectorizerTransform(v, doc_array) ==
    IF v.state # "fitted"
    THEN [raised |-> TRUE, error |-> "NotFittedError", value |-> NoValue]
    ELSE [raised |-> FALSE, error |-> "",
          value |-> [kind |-> "matrix", cols |-> v.vocabulary_,
                     rows |-> [i \in 1..Len(doc_array) |->
                                 Analyze(doc_array[i], v.stop_words)
                                     \cap v.vocabulary_]]]

\* NLPProcessing.tfidf_vectorize(training_docs): a new vectorizer is stored in
\* self.vectorize, then fitted.
tfidf_vectorize(training_docs, mode, use_sw) ==
    LET stop_words == IF use_sw /\ mode = <<>> THEN get_stopwords ELSE {}
    IN  VectorizerFit(training_docs, stop_words)

(***************************************************************************)
(* NLPProcessing.fit / transform / fit_transform.  Each yields the call's  *)
(* outcome: whether it raised, what it returned, self.vectorize afterwards *)
(* and the record of its last _stemlem run.  The operators below follow    *)
(* the statements of each method in order, one operator per statement      *)
(* whose result the later statements use.                                  *)
(***************************************************************************)
NoStem == [text_array |-> <<>>, stages |-> <<>>, input |-> <<>>,
           done_stopwords |-> FALSE, ran |-> FALSE]

Out(raised, error, value, vec, stem) ==
    [raised |-> raised, error |-> error, value |-> value, vectorize |-> vec,
     stem |-> stem]

\* self.tfidf_vectorize(fit_array) has run on the stemmed text s: self.vectorize
\* is the new vectorizer whether or not its fit raised.
Vectorized(s, t) == Out(t.raised, t.error, NoValue, t.vectorize, s)

\* fit_array = self._stemlem(fit_array); self.tfidf_vectorize(fit_array)
FitStemmed(s) == Vectorized(s, tfidf_vectorize(s.text_array, stemlem, use_stopwords))

\* NLPProcessing.fit(data)
NLP_fit(vec, data) ==
    FitStemmed(_stemlem(create_model_data(data, classes).fit_array,
                        stemlem, use_stopwords))

\* return x, y
Returned(x, y, vec, s) ==
    Out(x.raised, x.error,
        IF x.raised THEN NoValue ELSE [kind |-> "tuple", x |-> x.value, y |-> y],
        vec, s)

\* x = self.vectorize.transform(doc_array)
TransformStemmed(vec, y, s) == Returned(VectorizerTransform(vec, s.text_array), y, vec, s)

\* doc_array = self._stemlem(doc_array)
TransformDocs(vec, cm) ==
    TransformStemmed(vec, cm.y, _stemlem(cm.doc_array, stemlem, use_stopwords))

NLP_transform_unguarded(vec, data) ==
    IF vec.state = "None"
    THEN Out(TRUE, "NoneTypeAttributeError", NoValue, vec,
             _stemlem(create_model_data(data, classes).doc_array, stemlem,
                      use_stopwords))
    ELSE TransformDocs(vec, create_model_data(data, classes))

\* NLPProcessing.transform(data): returns the pair (x, y).
NLP_transform(vec, data) ==
    IF vec.state = "None"
    THEN Out(TRUE, "AttributeError", NoValue, vec, NoStem)
    ELSE TransformDocs(vec, create_model_data(data, classes))

\* The second half of fit_transform: transform with the vectorizer just fitted.
TransformAfterFit(cm, f) == IF f.raised THEN f ELSE TransformDocs(f.vectorize, cm)

FitThenTransform(cm) ==
    TransformAfterFit(cm, FitStemmed(_stemlem(cm.fit_array, stemlem, use_stopwords)))

\* NLPProcessing.fit_transform(data): returns the pair (x, y).
NLP_fit_transform(vec, data) == FitThenTransform(create_model_data(data, classes))

(***************************************************************************)
(* The wrapped classifier.  It is supplied by the caller; `tolerant` says  *)
(* whether it accepts a (matrix, labels) pair where a feature matrix is    *)
(* expected (using the pair's matrix) or rejects it, as the scikit-learn   *)
(* estimators do.  Fitting leaves it with the labels (classes_) and the    *)
(* feature columns (cols) of its training data; it predicts only labels it *)
(* was fitted on, and maps equal rows to equal labels.                     *)
(***************************************************************************)
Features(X) == IF X.kind = "tuple" THEN X.x ELSE X

Rejects(mdl, X) == X.kind # "matrix" /\ ~mdl.tolerant

\* classifier.fit(X, y)
ClfFit(mdl, X, y) ==
    IF Rejects(mdl, X) \/ Len(Features(X).rows) = 0
       \/ Len(Features(X).rows) # Len(y)
    THEN [raised |-> TRUE, error |-> "ValueError", model |-> mdl]
    ELSE [raised |-> FALSE, error |-> "",
          model |-> [mdl EXCEPT !.fitted = TRUE, !.classes_ = Range(y),
                                !.cols = Features(X).cols]]

Predictions(mdl, rows) ==
    {p \in [1..Len(rows) -> mdl.classes_] :
        \A i, j \in 1..Len(rows) : rows[i] = rows[j] => p[i] = p[j]}

\* The label vectors classifier.predict(X) can return, or the error it raises
\* (the estimators check that they are fitted before they look at X).
ClfPredict(mdl, X) ==
    IF ~mdl.fitted
    THEN [raised |-> TRUE, error |-> "NotFittedError", preds |-> {}]
    ELSE IF Rejects(mdl, X) \/ Len(Features(X).rows) = 0
            \/ Features(X).cols # mdl.cols
    THEN [raised |-> TRUE, error |-> "ValueError", preds |-> {}]
    ELSE [raised |-> FALSE, error |-> "",
          preds |-> Predictions(mdl, Features(X).rows)]

(***************************************************************************)
(* Floating-point values as numpy produces them: a rational in lowest      *)
(* terms, inf or nan; division by zero warns and does not raise.           *)
(***************************************************************************)
RECURSIVE GCD(_, _)
GCD(a, b) == IF b = 0 THEN a ELSE GCD(b, a % b)

NaN == [k |-> "nan", n |-> 0, d |-> 1]
Inf == [k |-> "inf", n |-> 0, d |-> 1]
Num(n, d) == LET g == GCD(n, d) IN [k |-> "num", n |-> n \div g, d |-> d \div g]

\* a / b for non-negative array entries a, b
FDiv(a, b) == IF b = 0 THEN (IF a = 0 THEN NaN ELSE Inf) ELSE Num(a, b)

\* c / x for a positive constant c
FUnder(c, x) ==
    CASE x.k = "nan" -> NaN
      [] x.k = "inf" -> Num(0, 1)
      [] x.k = "num" /\ x.n = 0 -> Inf
      [] OTHER -> Num(c * x.d, x.n)

FAdd(x, y) ==
    CASE x.k = "nan" \/ y.k = "nan" -> NaN
      [] x.k = "inf" \/ y.k = "inf" -> Inf
      [] OTHER -> Num(x.n * y.d + y.n * x.d, x.d * y.d)

RECURSIVE FSum(_)
FSum(s) == IF s = <<>> THEN Num(0, 1) ELSE FAdd(Head(s), FSum(Tail(s)))

\* np.array(scores).mean()
FMean(s) ==
    LET t == FSum(s)
    IN  IF Len(s) = 0 \/ t.k # "num" THEN NaN ELSE Num(t.n, t.d * Len(s))

(***************************************************************************)
(* Confusion matrices: a sequence of rows, rows = truth, columns =         *)
(* predicted.                                                              *)
(***************************************************************************)
Zeros(n) == [i \in 1..n |-> [j \in 1..n |-> 0]]

RowSum(C, i) == SumSeq(C[i])
ColSum(C, j) == SumSeq([i \in 1..Len(C) |-> C[i][j]])
Total(C) == SumSeq([i \in 1..Len(C) |-> RowSum(C, i)])

\* The labels of a set in ascending order.
SortedLabels(S) ==
    CHOOSE q \in [1..Cardinality(S) -> S] :
        \A i, j \in 1..Cardinality(S) : i < j => q[i] < q[j]

\* sklearn.metrics.confusion_matrix(y_true, y_pred) without `labels`: one
\* row and column per label that occurs in either vector.
confusion_matrix(y_true, y_pred) ==
    LET labels == SortedLabels(Range(y_true) \cup Range(y_pred))
    IN  [i \in 1..Len(labels) |-> [j \in 1..Len(labels) |->
            Cardinality({r \in 1..Len(y_true) :
                            y_true[r] = labels[i] /\ y_pred[r] = labels[j]})]]

\* numpy's in-place `confusion += m`: equal shapes add entry by entry, a 1x1
\* operand is broadcast to every entry, any other shape raises ValueError.
AddInPlace(confusion, m) ==
    IF Len(m) = Len(confusion)
    THEN [raised |-> FALSE,
          value |-> [i \in 1..Len(confusion) |-> [j \in 1..Len(confusion) |->
                        confusion[i][j] + m[i][j]]]]
    ELSE IF Len(m) = 1
    THEN [raised |-> FALSE,
          value |-> [i \in 1..Len(confusion) |-> [j \in 1..Len(confusion) |->
                        confusion[i][j] + m[1][1]]]]
    ELSE [raised |-> TRUE, value |-> confusion]

\* Variant: a score report that leaves out the classes whose precision or
\* recall has a zero denominator.
_get_scores_skipping_empty(C) ==
    LET d(i) == C[i][i]
        precision(i) == FDiv(d(i), RowSum(C, i))
        recall(i) == FDiv(d(i), ColSum(C, i))
        F1(i) == FUnder(2, FAdd(FUnder(1, precision(i)), FUnder(1, recall(i))))
    IN  SelectSeq([i \in 1..Len(C) |->
                      [class |-> i - 1, precision |-> precision(i),
                       recall |-> recall(i), F1 |-> F1(i)]],
                  LAMBDA l : l.precision.k # "nan" /\ l.recall.k # "nan")

\* JHPModel._get_scores(confusion_matrix): the values of the printed lines.
_get_scores(C) ==
    LET d(i) == C[i][i]
        precision(i) == FDiv(d(i), RowSum(C, i))   \* sum(axis=1)
        recall(i) == FDiv(d(i), ColSum(C, i))      \* sum(axis=0)
        F1(i) == FUnder(2, FAdd(FUnder(1, precision(i)), FUnder(1, recall(i))))
    IN  [i \in 1..Len(C) |->
            [class |-> i - 1, precision |-> precision(i), recall |-> recall(i),
             F1 |-> F1(i)]]

(***************************************************************************)
(* JHPModel.  An operation's result carries what it raised or returned,    *)
(* the preprocessor and classifier state it leaves, the calls it made to   *)
(* the classifier, what it printed and, for cross_validate, one entry per  *)
(* completed fold.                                                         *)
(***************************************************************************)
Res(raised, error, value, vec, mdl, stem, calls, printed, folds) ==
    [raised |-> raised, error |-> error, value |-> value, vectorize |-> vec,
     model |-> mdl, stem |-> stem, calls |-> calls, printed |-> printed,
     folds |-> folds]

Call(fn, X, y) == [fn |-> fn, X |-> X, y |-> y]

\* self.model.fit(features, labels) has run.
ModelFitted(features, labels, c) ==
    Res(c.raised, c.error, NoValue, features.vectorize, c.model, features.stem,
        <<Call("fit", features.value, labels)>>, <<>>, <<>>)

\* labels = self._get_labels(df); self.model.fit(features, labels)
FitClassifier(mdl, features, labels) ==
    IF features.raised
    THEN Res(TRUE, features.error, NoValue, features.vectorize, mdl,
             features.stem, <<>>, <<>>, <<>>)
    ELSE ModelFitted(features, labels, ClfFit(mdl, features.value, labels))

\* features = self.processing.fit_transform(df)
FitFrame(vec, mdl, df) ==
    FitClassifier(mdl, NLP_fit_transform(vec, df), _get_labels(df))

\* JHPModel.fit(training)
JHP_fit(vec, mdl, training) ==
    FitFrame(vec, mdl, create_model_data(training, classes).df)

\* return self.model.predict(testing)
Predicted(vec, mdl, t, c) ==
    IF c.raised
    THEN {Res(TRUE, c.error, NoValue, vec, mdl, t.stem,
              <<Call("predict", t.value, <<>>)>>,
              <<[what |-> "testing", v |-> t.value]>>, <<>>)}
    ELSE {Res(FALSE, "", [kind |-> "labels", v |-> p], vec, mdl, t.stem,
              <<Call("predict", t.value, <<>>)>>,
              <<[what |-> "testing", v |-> t.value]>>, <<>>) : p \in c.preds}

\* testing = self.processing.transform(testing); print(testing)
PredictTransformed(vec, mdl, t) ==
    IF t.raised
    THEN {Res(TRUE, t.error, NoValue, vec, mdl, t.stem, <<>>, <<>>, <<>>)}
    ELSE Predicted(vec, mdl, t, ClfPredict(mdl, t.value))

\* JHPModel.predict(testing): the results it can produce.
JHP_predict(vec, mdl, testing) ==
    PredictTransformed(vec, mdl,
        NLP_transform(vec, IF testing.kind = "str" THEN DocList(<<testing.doc>>)
                           ELSE testing))

\* KFold(n_splits, shuffle=True).split(df): the shuffled assignments of the n
\* rows to the folds 1..n_splits, the first n % n_splits folds one row larger.
KFoldSplits(n, n_splits) ==
    LET size(j) == (n \div n_splits) + (IF j <= n % n_splits THEN 1 ELSE 0)
    IN  {f \in [1..n -> 1..n_splits] :
            \A j \in 1..n_splits : Cardinality({i \in 1..n : f[i] = j}) = size(j)}

\* df.iloc[index]: the rows at the given positions, in table order.
ILoc(rows, index) ==
    [i \in 1..Cardinality(index) |-> rows[SortedLabels(index)[i]]]

\* model.score(X_test, y_test): the accuracy of the predictions p.
Accuracy(y_test, p) ==
    Num(Cardinality({i \in 1..Len(y_test) : y_test[i] = p[i]}), Len(y_test))

Abort(st, e) == [st EXCEPT !.raised = TRUE, !.error = e]

\* confusion += confusion_matrix(y_test, self.model.predict(X_test))
CVAccumulated(st, fold, sum) ==
    IF sum.raised THEN Abort(st, "ValueError")
    ELSE [st EXCEPT !.confusion = sum.value, !.folds = Append(@, fold)]

\* scores.append(self.model.score(X_test, y_test)) and the predict call, for
\* the predictions p of the fitted classifier.
CVScored(st, train, test, X_test, y_test, p) ==
    CVAccumulated(
        [st EXCEPT !.calls = @ \o <<Call("score", X_test, y_test),
                                    Call("predict", X_test, <<>>)>>,
                   !.scores = Append(@, Accuracy(y_test, p))],
        [train |-> train, test |-> test, X_test |-> X_test, y_test |-> y_test,
         pred |-> p],
        AddInPlace(st.confusion, confusion_matrix(y_test, p)))

CVPredicted(st, train, test, X_test, y_test, c) ==
    IF c.raised
    THEN {Abort([st EXCEPT !.calls = @ \o <<Call("score", X_test, y_test)>>],
                c.error)}
    ELSE {CVScored(st, train, test, X_test, y_test, p) : p \in c.preds}

\* X_test = self.processing.transform(df_test); y_test = self._get_labels(df_test)
CVTransformed(st, train, test, t, y_test) ==
    IF t.raised THEN {Abort([st EXCEPT !.stem = t.stem], t.error)}
    ELSE CVPredicted([st EXCEPT !.stem = t.stem], train, test, t.value, y_test,
                     ClfPredict(st.model, t.value))

\* df_test = create_model_data(df.iloc[test_index], num_cities=self.classes)
CVTest(st, train, test, df_test) ==
    CVTransformed(st, train, test, NLP_transform(st.vectorize, df_test),
                  _get_labels(df_test))

\* self.fit(training=df.iloc[train_index]) has run.
CVFitted(st, train, test, fit) ==
    IF fit.raised
    THEN {Abort([st EXCEPT !.vectorize = fit.vectorize, !.model = fit.model,
                           !.stem = fit.stem, !.calls = @ \o fit.calls],
                fit.error)}
    ELSE CVTest([st EXCEPT !.vectorize = fit.vectorize, !.model = fit.model,
                           !.stem = fit.stem, !.calls = @ \o fit.calls],
                train, test, create_model_data(Frame(test), classes).df)

\* One iteration of the fold loop of cross_validate, from the loop state st:
\* the loop states it can end in.
CVFold(st, train, test) ==
    CVFitted(st, train, test, JHP_fit(st.vectorize, st.model, Frame(train)))

RECURSIVE CVLoop(_, _, _, _, _)
CVLoop(st, rows, f, j, n_splits) ==
    IF j > n_splits THEN {st}
    ELSE UNION {IF o.raised THEN {o} ELSE CVLoop(o, rows, f, j + 1, n_splits) :
                   o \in CVFold(st,
                                ILoc(rows, {i \in 1..Len(rows) : f[i] # j}),
                                ILoc(rows, {i \in 1..Len(rows) : f[i] = j}))}

\* The prints after the loop and the call of _get_scores.
CVReport(st) ==
    Res(st.raised, st.error, NoValue, st.vectorize, st.model, st.stem, st.calls,
        IF st.raised THEN <<>>
        ELSE <<[what |-> "accuracy", v |-> FMean(st.scores)],
               [what |-> "confusion", v |-> st.confusion],
               [what |-> "scores", v |-> _get_scores(st.confusion)]>>,
        st.folds)

\* Variant: a cross-validation that works on a copy of the pipeline and
\* leaves the caller's vectorizer and classifier as they were.
JHP_cross_validate_on_copy(vec, mdl, data, n_splits) ==
    IF n_splits < 2 \/ n_splits > Len(data.rows)
    THEN {Res(TRUE, "ValueError", NoValue, vec, mdl, NoStem, <<>>, <<>>, <<>>)}
    ELSE {Res(r.raised, r.error, r.value, vec, mdl, r.stem, r.calls, r.printed, r.folds) :
             r \in {CVReport(st) :
                      st \in UNION {CVLoop([vectorize |-> vec, model |-> mdl,
                                             stem |-> NoStem, calls |-> <<>>,
                                             scores |-> <<>>,
                                             confusion |-> Zeros(classes),
                                             folds |-> <<>>, raised |-> FALSE,
                                             error |-> ""],
                                            data.rows, f, 1, n_splits) :
                                       f \in KFoldSplits(Len(data.rows), n_splits)}}}

\* JHPModel.cross_validate(data, n_splits): the results it can produce.
JHP_cross_validate(vec, mdl, data, n_splits) ==
    IF n_splits < 2 \/ n_splits > Len(data.rows)
    THEN {Res(TRUE, "ValueError", NoValue, vec, mdl, NoStem, <<>>, <<>>, <<>>)}
    ELSE {CVReport(st) :
             st \in UNION {CVLoop([vectorize |-> vec, model |-> mdl,
                                    stem |-> NoStem, calls |-> <<>>,
                                    scores |-> <<>>, confusion |-> Zeros(classes),
                                    folds |-> <<>>, raised |-> FALSE, error |-> ""],
                                   data.rows, f, 1, n_splits) :
                              f \in KFoldSplits(Len(data.rows), n_splits)}}

\* Variant: the most important features taken with [-n:], in ascending order.
show_informative_features_unreversed(feature_names, importances, n) ==
    LET V == Len(feature_names)
        Before(a, b) == a[1] < b[1] \/ (a[1] = b[1] /\ a[2] < b[2])
        coefs_names ==
            CHOOSE q \in [1..V -> {<<importances[i], i>> : i \in 1..V}] :
                \A i, j \in 1..V : i < j => Before(q[i], q[j])
        m == Min(n, V)
        least == [j \in 1..m |-> coefs_names[j]]
        most == [j \in 1..m |-> coefs_names[V - m + j]]
    IN  [j \in 1..m |->
            [coef_1 |-> least[j][1], fn_1 |-> feature_names[least[j][2]],
             coef_2 |-> most[j][1], fn_2 |-> feature_names[most[j][2]]]]

\* JHPModel.show_informative_features(n): the printed rows, given the
\* vectorizer's feature names (in column order, which is alphabetical) and the
\* classifier's feature_importances_.
show_informative_features(feature_names, importances, n) ==
    LET V == Len(feature_names)
        Before(a, b) == a[1] < b[1] \/ (a[1] = b[1] /\ a[2] < b[2])
        \* sorted(zip(importances, names)): by importance, then by name
        coefs_names ==
            CHOOSE q \in [1..V -> {<<importances[i], i>> : i \in 1..V}] :
                \A i, j \in 1..V : i < j => Before(q[i], q[j])
        m == Min(n, V)
        least == [j \in 1..m |-> coefs_names[j]]            \* [:n]
        most == [j \in 1..m |-> coefs_names[V - j + 1]]     \* [:-(n + 1):-1]
    IN  [j \in 1..m |->
            [coef_1 |-> least[j][1], fn_1 |-> feature_names[least[j][2]],
             coef_2 |-> most[j][1], fn_2 |-> feature_names[most[j][2]]]]

(***************************************************************************)
(* Inputs.                                                                 *)
(***************************************************************************)
Records ==
    {[doc |-> <<"the", "jobs">>, label |-> 0],
     [doc |-> <<"fairly">>, label |-> 1],
     [doc |-> <<"The", "a">>, label |-> 2]}

Docs == {r.doc : r \in Records}

\* The mode strings, each as the keywords it contains.
Modes ==
    {<<>>, <<"wordnet">>, <<"porter">>, <<"snowball">>, <<"wordnet", "porter">>,
     <<"wordnet", "snowball">>, <<"snowball", "porter">>, <<"lancaster">>}

\* The modes of the pipelines whose classifier is exercised.
PipelineModes == {<<>>, <<"wordnet", "snowball">>}

SeqsUpTo(S, n) == UNION {[1..m -> S] : m \in 0..n}

Tables == {Frame(rows) : rows \in SeqsUpTo(Records, MaxRecords)}

Testings ==
    {[kind |-> "str", doc |-> d] : d \in Docs}
        \cup {DocList(ds) : ds \in SeqsUpTo(Docs, MaxRecords)}

\* 2x2 matrices with entries up to MaxCount, 3x3 matrices of zeros and ones,
\* and the 2x2 matrix [[8, 2], [1, 9]].
Matrices ==
    [1..2 -> [1..2 -> 0..MaxCount]]
        \cup [1..3 -> [1..3 -> 0..1]]
        \cup {<<<<8, 2>>, <<1, 9>>>>}

FeatureNames == <<"a", "b", "c", "d", "e">>

\* Importances in hundredths; [0.1, 0.5, 0.05, 0.3, 0.2] is <<10, 50, 5, 30, 20>>.
FeatureInputs ==
    {[names |-> SubSeq(FeatureNames, 1, V), importances |-> imp, n |-> n] :
        V \in 1..MaxFeat, imp \in SeqsUpTo(0..2, MaxFeat), n \in 0..(MaxFeat + 1)}

FeatureCases ==
    {c \in FeatureInputs : Len(c.importances) = Len(c.names)}
        \cup {[names |-> FeatureNames, importances |-> <<10, 50, 5, 30, 20>>,
                n |-> n] : n \in 1..5}

(***************************************************************************)
(* State machine.                                                          *)
(***************************************************************************)
RetOf(op, o) ==
    [op |-> op, raised |-> o.raised, error |-> o.error, value |-> o.value,
     stem |-> o.stem, calls |-> o.calls, printed |-> o.printed, folds |-> o.folds]

NoCall == [op |-> "__init__", raised |-> FALSE, error |-> "", value |-> NoValue,
           stem |-> NoStem, calls |-> <<>>, printed |-> <<>>, folds |-> <<>>]

NewModel(t) == [tolerant |-> t, fitted |-> FALSE, classes_ |-> {}, cols |-> {}]

\* JHPModel.__init__: a pipeline around a classifier, stop words enabled.
Init ==
    /\ stemlem \in PipelineModes
    /\ use_stopwords = TRUE
    /\ classes \in {2, 3}
    /\ done_stopwords = FALSE
    /\ vectorize = NoVectorizer
    /\ model \in {NewModel(t) : t \in BOOLEAN}
    /\ ret = NoCall
    /\ scoresIn = <<>>
    /\ featIn = <<>>

\* NLPProcessing.__init__: a preprocessor on its own, in every configuration.
InitNLP ==
    /\ stemlem \in Modes
    /\ use_stopwords \in BOOLEAN
    /\ classes \in {2, 3}
    /\ done_stopwords = FALSE
    /\ vectorize = NoVectorizer
    /\ model = NewModel(FALSE)
    /\ ret = NoCall
    /\ scoresIn = <<>>
    /\ featIn = <<>>

Finish(op, o) ==
    /\ vectorize' = o.vectorize
    /\ model' = o.model
    /\ done_stopwords' = IF o.stem.ran THEN o.stem.done_stopwords ELSE done_stopwords
    /\ ret' = RetOf(op, o)
    /\ UNCHANGED <<stemlem, use_stopwords, classes, scoresIn, featIn>>

WithModel(o, mdl) ==
    Res(o.raised, o.error, o.value, o.vectorize, mdl, o.stem, <<>>, <<>>, <<>>)

\* processing.fit(data)
Fit == \E data \in Tables : Finish("fit", WithModel(NLP_fit(vectorize, data), model))

\* processing.transform(data)
Transform ==
    \E data \in Tables :
        Finish("transform", WithModel(NLP_transform(vectorize, data), model))

\* processing.fit_transform(data)
FitTransform ==
    \E data \in Tables :
        Finish("fit_transform", WithModel(NLP_fit_transform(vectorize, data), model))

\* JHPModel.fit(training)
ModelFit == \E training \in Tables : Finish("JHPModel.fit", JHP_fit(vectorize, model, training))

\* JHPModel.predict(testing)
Predict ==
    \E testing \in Testings : \E o \in JHP_predict(vectorize, model, testing) :
        Finish("predict", o)

\* JHPModel.cross_validate(data, n_splits)
CrossValidate ==
    \E data \in Tables, n_splits \in 1..(MaxRecords + 1) :
        \E o \in JHP_cross_validate(vectorize, model, data, n_splits) :
            Finish("cross_validate", o)

Next == Fit \/ Transform \/ FitTransform \/ ModelFit \/ Predict \/ CrossValidate

Spec == Init /\ [][Next]_vars

NextNLP == Fit \/ Transform \/ FitTransform

SpecNLP == InitNLP /\ [][NextNLP]_vars

(***************************************************************************)
(* The score report and the feature report, each applied once to an input  *)
(* drawn at the start.                                                     *)
(***************************************************************************)
InitScores ==
    /\ stemlem = <<>>
    /\ use_stopwords = TRUE
    /\ classes = 2
    /\ done_stopwords = FALSE
    /\ vectorize = NoVectorizer
    /\ model = NewModel(FALSE)
    /\ ret = NoCall
    /\ scoresIn \in Matrices
    /\ featIn = <<>>

\* JHPModel._get_scores(confusion_matrix)
GetScores ==
    /\ ret.op = "__init__"
    /\ ret' = [NoCall EXCEPT !.op = "_get_scores",
                             !.printed = <<[what |-> "scores",
                                            v |-> _get_scores(scoresIn)]>>]
    /\ UNCHANGED <<stemlem, use_stopwords, classes, done_stopwords, vectorize,
                   model, scoresIn, featIn>>

NextScores == GetScores

SpecScores == InitScores /\ [][NextScores]_vars

InitFeatures ==
    /\ stemlem = <<>>
    /\ use_stopwords = TRUE
    /\ classes = 2
    /\ done_stopwords = FALSE
    /\ vectorize = NoVectorizer
    /\ model = NewModel(TRUE)
    /\ ret = NoCall
    /\ scoresIn = <<>>
    /\ featIn \in FeatureCases

\* JHPModel.show_informative_features(n)
ShowInformativeFeatures ==
    /\ ret.op = "__init__"
    /\ ret' = [NoCall EXCEPT
                  !.op = "show_informative_features",
                  !.printed = show_informative_features(featIn.names,
                                                        featIn.importances, featIn.n)]
    /\ UNCHANGED <<stemlem, use_stopwords, classes, done_stopwords, vectorize,
                   model, scoresIn, featIn>>

NextFeatures == ShowInformativeFeatures

SpecFeatures == InitFeatures /\ [][NextFeatures]_vars

(***************************************************************************)
(* Properties.                                                             *)
(***************************************************************************)
Last(q) == q[Len(q)]

DocsOf(rows) == [i \in 1..Len(rows) |-> rows[i].doc]

\* What a preprocessor of this configuration holds after fitting `docs` from
\* scratch: the vectorizer, fitted or not.
FreshFit(docs) == FitStemmed(_stemlem(docs, stemlem, use_stopwords)).vectorize

\* The rows of a table that create_model_data keeps.
Kept(rows) == create_model_data(Frame(rows), classes).df.rows

NotFittedErrors == {"AttributeError", "NotFittedError"}

\* C1: with use_stopwords enabled, in every mode, no stop word is a term of
\* the vocabulary fitted by fit / fit_transform.
C1_NoStopWordInVocabulary ==
    (use_stopwords /\ vectorize.state = "fitted")
        => vectorize.vocabulary_ \cap get_stopwords = {}

\* C2: for a confusion matrix with rows = truth and columns = predicted, the
\* score report gives per class precision = C[i][i] / column sum, recall =
\* C[i][i] / row sum and F1 their harmonic mean; for [[8, 2], [1, 9]] class 0
\* has precision 8/9 and recall 8/10.
C2_PrecisionOverPredicted ==
    ret.op = "_get_scores" =>
        LET C == scoresIn
            lines == ret.printed[1].v
        IN  /\ \A i \in 1..Len(C) :
                  /\ lines[i].precision = FDiv(C[i][i], ColSum(C, i))
                  /\ lines[i].recall = FDiv(C[i][i], RowSum(C, i))
                  /\ lines[i].F1 = FUnder(2, FAdd(FUnder(1, lines[i].precision),
                                                  FUnder(1, lines[i].recall)))
            /\ C = <<<<8, 2>>, <<1, 9>>>> =>
                  /\ lines[1].precision = Num(8, 9)
                  /\ lines[1].recall = Num(8, 10)

\* C3: after cross_validate completes, the entries of the aggregated
\* confusion matrix sum to the number of test records scored over all folds.
C3_ConfusionConservation ==
    (ret.op = "cross_validate" /\ ~ret.raised) =>
        Total(ret.printed[2].v)
            = SumSeq([j \in 1..Len(ret.folds) |-> Len(ret.folds[j].y_test)])

\* C4: transform, and predict, on a preprocessor that holds no fitted
\* vocabulary (never fitted, or every fit so far raised) raises the not-fitted
\* error, returns nothing and leaves the preprocessor as it was.
C4_UnfittedTransformFails ==
    [][(vectorize.state # "fitted" /\ ret'.op \in {"transform", "predict"})
          => /\ ret'.raised
             /\ ret'.error \in NotFittedErrors
             /\ ret'.value = NoValue
             /\ ret'.calls = <<>>
             /\ vectorize' = vectorize
             /\ model' = model]_vars

C4_Witness ==
    /\ ret.op = "transform"
    /\ ret.raised
    /\ ret.error = "NotFittedError"
    /\ vectorize.state = "unfitted"

\* C5: the classifier's fit, predict and score receive the feature matrix
\* itself, not the (matrix, labels) pair, and fit receives as many rows as
\* labels.
C5_ClassifierGetsMatrix ==
    \A i \in 1..Len(ret.calls) :
        /\ ret.calls[i].X.kind = "matrix"
        /\ ret.calls[i].fn = "fit" =>
              Len(ret.calls[i].X.rows) = Len(ret.calls[i].y)

\* C6: the vocabulary is always that of the most recent successful
\* fit / fit_transform, so a transform, a predict or a fit that raises leaves
\* a fitted vocabulary as it was.
C6_VocabularyOfLastSuccessfulFit ==
    [][(/\ vectorize.state = "fitted"
        /\ \/ ret'.op \in {"transform", "predict"}
           \/ ret'.op \in {"fit", "fit_transform"} /\ ret'.raised)
          => vectorize' = vectorize]_vars

\* C6, the part the code keeps: transform and predict leave the vectorizer unchanged; a
\* fit, fit_transform or pipeline fit leaves exactly what fitting its own
\* documents from scratch gives, which is the fresh vocabulary if the fit
\* succeeded and no vocabulary at all (an unfitted vectorizer) if it raised;
\* and in cross_validate each fold's test split is transformed over the
\* vocabulary fitted from that fold's training split alone.
C6_VocabularyOfLastFitAttempt ==
    [][/\ ret'.op \in {"transform", "predict"} => vectorize' = vectorize
       /\ ret'.op \in {"fit", "fit_transform", "JHPModel.fit"} =>
             /\ vectorize' = FreshFit(ret'.stem.input)
             /\ (ret'.op # "JHPModel.fit") =>
                   (ret'.raised <=> vectorize'.state = "unfitted")
       /\ ret'.op = "cross_validate" =>
             \A j \in 1..Len(ret'.folds) :
                 ret'.folds[j].X_test.x.cols
                     = FreshFit(DocsOf(Kept(ret'.folds[j].train))).vocabulary_]_vars

\* A transform of a document with a term outside the fitted vocabulary.
C6_Witness ==
    /\ ret.op = "transform"
    /\ ~ret.raised
    /\ \E i \in 1..Len(ret.stem.text_array) :
          ~(Analyze(ret.stem.text_array[i], vectorize.stop_words)
                \subseteq vectorize.vocabulary_)

IsScore(x) == x.k = "nan" \/ (x.k = "num" /\ x.d > 0 /\ 0 <= x.n /\ x.n <= x.d)

\* C7: for every confusion matrix with non-negative entries the score report
\* does not raise: it reports one line per class, each value a number in
\* [0, 1] or not-a-number, and not-a-number exactly for a zero denominator.
C7_ScoresNeverRaise ==
    ret.op = "_get_scores" =>
        LET C == scoresIn
            lines == ret.printed[1].v
        IN  /\ Len(lines) = Len(C)
            /\ \A i \in 1..Len(C) :
                  /\ lines[i].class = i - 1
                  /\ IsScore(lines[i].precision)
                  /\ IsScore(lines[i].recall)
                  /\ IsScore(lines[i].F1)
                  /\ (lines[i].F1.k = "nan")
                        <=> (RowSum(C, i) = 0 \/ ColSum(C, i) = 0)

\* A class with no actual and one with no predicted instances.
C7_Witness ==
    /\ ret.op = "_get_scores"
    /\ \E i, j \in 1..Len(scoresIn) :
          /\ RowSum(scoresIn, i) = 0
          /\ ColSum(scoresIn, j) = 0
          /\ ret.printed[1].v[i].F1.k = "nan"
          /\ ret.printed[1].v[j].F1.k = "nan"

Importance(name) ==
    featIn.importances[CHOOSE i \in 1..Len(featIn.names) : featIn.names[i] = name]

\* C8: for 1 <= n <= V the feature report has n rows; row j pairs the j-th
\* least important term with the j-th most important one, each term with its
\* own importance, the least important ascending and the most important
\* descending; for importances [0.1, 0.5, 0.05, 0.3, 0.2] of [a, b, c, d, e]
\* and n = 1 it reports (c, 0.05) and (b, 0.5).
C8_FeatureReport ==
    (/\ ret.op = "show_informative_features"
     /\ 1 <= featIn.n
     /\ featIn.n <= Len(featIn.names)) =>
        LET rows == ret.printed
            n == featIn.n
            names == Range(featIn.names)
            least == {rows[j].fn_1 : j \in 1..Len(rows)}
            most == {rows[j].fn_2 : j \in 1..Len(rows)}
        IN  /\ Len(rows) = n
            /\ Cardinality(least) = n
            /\ Cardinality(most) = n
            /\ \A j \in 1..n :
                  /\ rows[j].fn_1 \in names
                  /\ rows[j].fn_2 \in names
                  /\ rows[j].coef_1 = Importance(rows[j].fn_1)
                  /\ rows[j].coef_2 = Importance(rows[j].fn_2)
                  /\ j < n => rows[j].coef_1 <= rows[j + 1].coef_1
                  /\ j < n => rows[j].coef_2 >= rows[j + 1].coef_2
            /\ \A t \in names \ least : Importance(t) >= rows[n].coef_1
            /\ \A t \in names \ most : Importance(t) <= rows[n].coef_2
            /\ (featIn.importances = <<10, 50, 5, 30, 20>> /\ n = 1) =>
                  rows[1] = [coef_1 |-> 5, fn_1 |-> "c", coef_2 |-> 50, fn_2 |-> "b"]

\* Two rows with distinct importances on each side.
C8_Witness ==
    /\ ret.op = "show_informative_features"
    /\ featIn.n = 2
    /\ Len(featIn.names) = 3
    /\ Len(ret.printed) = 2
    /\ ret.printed[1].coef_1 < ret.printed[2].coef_1
    /\ ret.printed[1].coef_2 > ret.printed[2].coef_2

Stemmers == {"snowball", "porter"}

\* C9: in every run of the stem/lemmatize step the lemmatizer, if selected,
\* runs first; at most one stemmer runs; snowball wins over porter; a selected
\* model runs and an unselected one does not; with the empty mode nothing
\* runs and the documents come back unchanged.
C9_StemlemOrder ==
    ret.stem.ran =>
        LET st == ret.stem.stages
            stemmed == {i \in 1..Len(st) : st[i] \in Stemmers}
        IN  /\ InMode("wordnet", stemlem) <=> (Len(st) >= 1 /\ st[1] = "wordnet")
            /\ \A i \in 2..Len(st) : st[i] # "wordnet"
            /\ Cardinality(stemmed) <= 1
            /\ InMode("snowball", stemlem) <=> "snowball" \in Range(st)
            /\ (InMode("porter", stemlem) /\ ~InMode("snowball", stemlem))
                  <=> "porter" \in Range(st)
            /\ stemlem = <<>> =>
                  st = <<>> /\ ret.stem.text_array = ret.stem.input
            /\ ~done_stopwords

\* Both stemmers named and a document that they stem differently.
C9_Witness ==
    /\ stemlem = <<"snowball", "porter">>
    /\ ret.stem.ran
    /\ ret.stem.stages = <<"snowball">>
    /\ <<"fair">> \in Range(ret.stem.text_array)

\* C10: when cross_validate returns, the pipeline is left fitted on the
\* training split of the last fold: the vocabulary and the classifier are
\* those a fit of that split alone gives; when a fold raises, the call raises
\* that error and prints neither accuracy nor confusion matrix.
C10_CrossValidateLeavesLastFold ==
    ret.op = "cross_validate" =>
        IF ret.raised
        THEN ret.error # "" /\ ret.printed = <<>> /\ ret.value = NoValue
        ELSE LET train == Kept(Last(ret.folds).train)
             IN  /\ Len(ret.folds) >= 2
                 /\ vectorize = FreshFit(DocsOf(train))
                 /\ vectorize.state = "fitted"
                 /\ model.fitted
                 /\ model.classes_ = {train[i].label : i \in 1..Len(train)}
                 /\ model.cols = vectorize.vocabulary_
                 /\ Len(ret.printed) = 3

\* A completed run whose final vocabulary differs from that of the full
\* record set.
C10_Witness ==
    /\ ret.op = "cross_validate"
    /\ ~ret.raised
    /\ vectorize.vocabulary_
          # FreshFit(DocsOf(Kept(Last(ret.folds).train \o Last(ret.folds).test))).vocabulary_

====
